---------------------------- MODULE Spec2Model ----------------------------
(***************************************************************************)
(* A model of scripts/rubrik_backup.py: one run of main(), from reading    *)
(* the environment to the return code.  The program is sequential; each    *)
(* action is the stretch of code from one external interaction (an HTTP    *)
(* request with its response, or a blocking sleep) to the next.  The       *)
(* backend is the environment: every response it can give is a             *)
(* nondeterministic choice from a bounded set.                             *)
(***************************************************************************)
EXTENDS Integers, Sequences, FiniteSets, TLC

VARIABLES
    env,            \* os.environ: the six inputs, each None or a string
    pc,             \* the position of main(): the next interaction
    cfg,            \* main's locals rsc_uri .. wait_for_completion
    missing,        \* main's list of missing variable names
    token,          \* main's local token
    repo_id,        \* main's local repo_id
    sla_domain_id,  \* main's local sla_domain_id
    taskchain_id,   \* take_on_demand_snapshot's local taskchain_id
    status,         \* wait_for_activity_series's local status
    final_status,   \* main's local final_status
    resp,           \* the most recent HTTP response received
    log,            \* every request sent and every sleep taken, in order
    stderr,         \* the diagnostics written by eprint, in order
    raised,         \* the function whose code raised into main's except
    rc              \* main's return value; NoRc while main is running

vars == <<env, pc, cfg, missing, token, repo_id, sla_domain_id, taskchain_id,
          status, final_status, resp, log, stderr, raised, rc>>

---------------------------------------------------------------------------
(* Bounds of the model. *)

\* The number of status queries one run may issue before the model stops.
MaxPolls == 3

---------------------------------------------------------------------------
(* Python values: None, str and int, and truthiness (`not x`, `x or y`).   *)

PyNone == [ty |-> "none", s |-> ""]
PyStr(x) == [ty |-> "str", s |-> x]
PyInt(x) == [ty |-> "int", s |-> x]

Truthy(v) ==
    CASE v.ty = "none" -> FALSE
      [] v.ty = "str"  -> v.s # ""
      [] v.ty = "int"  -> v.s # "0"

\* (x or "")
OrEmpty(v) == IF Truthy(v) THEN v.s ELSE ""

---------------------------------------------------------------------------
(* str methods. *)

Whitespace == {" ", "\t"}

UpperAlpha == "ABCDEFGHIJKLMNOPQRSTUVWXYZ"
LowerAlpha == "abcdefghijklmnopqrstuvwxyz"

CharAt(s, i) == SubSeq(s, i, i)

\* str.lower() on one character
LowerOf ==
    [c \in {CharAt(UpperAlpha, i) : i \in 1..26} |->
        CharAt(LowerAlpha, CHOOSE i \in 1..26 : CharAt(UpperAlpha, i) = c)]

LowerChar(c) == IF c \in DOMAIN LowerOf THEN LowerOf[c] ELSE c

RECURSIVE Lower(_)
Lower(s) ==
    IF s = "" THEN "" ELSE LowerChar(CharAt(s, 1)) \o Lower(SubSeq(s, 2, Len(s)))

RECURSIVE LStripSet(_, _)
LStripSet(s, chars) ==
    IF s # "" /\ CharAt(s, 1) \in chars
    THEN LStripSet(SubSeq(s, 2, Len(s)), chars)
    ELSE s

RECURSIVE RStripSet(_, _)
RStripSet(s, chars) ==
    IF s # "" /\ CharAt(s, Len(s)) \in chars
    THEN RStripSet(SubSeq(s, 1, Len(s) - 1), chars)
    ELSE s

Strip(s) == RStripSet(LStripSet(s, Whitespace), Whitespace)

\* needle in s
Contains(s, needle) ==
    \E i \in 1..(Len(s) - Len(needle) + 1) :
        SubSeq(s, i, i + Len(needle) - 1) = needle

\* the reference used whole, owner included
LastSegmentWhole(s) == s

\* s.split("/")[-1]
RECURSIVE LastSegment(_)
LastSegment(s) ==
    IF Contains(s, "/")
    THEN LastSegment(SubSeq(s, 2, Len(s)))
    ELSE s

normalize_base_uri(uri) == RStripSet(Strip(OrEmpty(uri)), {"/"})

\* the comparison with "false" done with regard to case
StrToBoolCaseSensitive(value, default) ==
    IF value.ty = "none" THEN default ELSE Strip(value.s) # "false"

str_to_bool(value, default) ==
    IF value.ty = "none" THEN default ELSE Lower(Strip(value.s)) # "false"

\* os.getenv(name, default)
GetEnvDefault(v, default) == IF v.ty = "none" THEN PyStr(default) ELSE v

---------------------------------------------------------------------------
(* What a function hands back to its caller: a returned value or an        *)
(* exception that propagates, with the lines it wrote to stderr.           *)

Return(v, err) == [raise |-> FALSE, v |-> v, err |-> err]
Raise(err) == [raise |-> TRUE, v |-> PyNone, err |-> err]

---------------------------------------------------------------------------
(* HTTP responses.  One record shape serves every endpoint:                *)
(*   net     how the request ended: "neterr" (requests.post raised a       *)
(*           RequestException), "http" (raise_for_status raised on a       *)
(*           non-2xx status), "badjson" (resp.json() raised ValueError),   *)
(*           "json" (a JSON body was decoded);                             *)
(*   obj     the decoded body is a JSON object (a dict);                   *)
(*   errors  the body's "errors" member;                                   *)
(*   shape   how far the path data -> <field> -> <leaf> exists: "empty"    *)
(*           is the body {}, "no_*" a missing key (KeyError), "*_null" a   *)
(*           null on the way (TypeError), "leaf" the whole path;           *)
(*   leaf    the value at the path when it is a scalar (lastActivityStatus,*)
(*           taskchainId, and access_token at the body's top level);       *)
(*   nodes   the value at the path when it is a nodes list.                *)

NoErrors == [k |-> "absent", es |-> <<>>]
NullErrors == [k |-> "null", es |-> <<>>]
ErrorList(es) == [k |-> "list", es |-> es]
\* a truthy "errors" member that is not a list (a JSON string)
StringErrors == [k |-> "string", es |-> <<>>]

NoNodes == [k |-> "null", ns |-> <<>>]
NodeList(ns) == [k |-> "list", ns |-> ns]
\* a truthy "nodes" member that is not a list (a JSON object)
ObjectNodes == [k |-> "object", ns |-> <<>>]

Response(net, obj, errors, shape, leaf, nodes) ==
    [net |-> net, obj |-> obj, errors |-> errors, shape |-> shape,
     leaf |-> leaf, nodes |-> nodes]

NoResponse == Response("none", FALSE, NoErrors, "empty", PyNone, NoNodes)

TransportFailures ==
    { Response(n, FALSE, NoErrors, "empty", PyNone, NoNodes) :
        n \in {"neterr", "http", "badjson"} }

\* a body that is valid JSON but not an object, such as [] or "x"
NonObjectBody == Response("json", FALSE, NoErrors, "empty", PyNone, NoNodes)

Body(errors, shape, leaf, nodes) ==
    Response("json", TRUE, errors, shape, leaf, nodes)

BrokenShapes == {"empty", "no_data", "data_null", "no_field", "field_null", "no_leaf"}

\* bool(errors): an absent member, null and [] are falsy
ErrorsTruthy(errors) ==
    \/ errors.k = "string"
    \/ errors.k = "list" /\ errors.es # <<>>

\* bool(result) for a dict: only {} is falsy
DictTruthy(r) == r.shape # "empty"

\* result["data"][<field>][<leaf>] inside try/except (TypeError, KeyError)
Subscript(r) ==
    CASE r.shape \in {"empty", "no_data", "no_field", "no_leaf"} -> "KeyError"
      [] r.shape \in {"data_null", "field_null"} -> "TypeError"
      [] OTHER -> "ok"

---------------------------------------------------------------------------
(* GraphQL error entries. *)

ErrorEntry(dict, path, code, message) ==
    [dict |-> dict, path |-> path, code |-> code, message |-> message]

TransientMessage == "An unexpected internal error occurred."

TransientEntry ==
    ErrorEntry(TRUE, <<"activitySeries">>, PyInt("500"), PyStr(TransientMessage))

\* an error of another kind: no path, another message
NotFoundEntry == ErrorEntry(TRUE, <<>>, PyInt("500"), PyStr("Not found"))

ErrorEntries ==
    { TransientEntry,
      \* the message in another case
      ErrorEntry(TRUE, <<"activitySeries">>, PyInt("500"),
                 PyStr("UNEXPECTED INTERNAL ERROR")),
      \* one signature part off
      ErrorEntry(TRUE, <<"slaDomains">>, PyInt("500"), PyStr(TransientMessage)),
      ErrorEntry(TRUE, <<"activitySeries">>, PyInt("503"), PyStr(TransientMessage)),
      ErrorEntry(TRUE, <<"activitySeries">>, PyInt("500"), PyStr("Not found")),
      \* two parts off
      NotFoundEntry,
      \* the code as a JSON string, the message missing
      ErrorEntry(TRUE, <<"activitySeries">>, PyStr("500"), PyStr(TransientMessage)),
      ErrorEntry(TRUE, <<"activitySeries">>, PyInt("500"), PyNone),
      \* the message a number
      ErrorEntry(TRUE, <<"activitySeries">>, PyInt("500"), PyInt("7")),
      \* an entry that is not an object
      ErrorEntry(FALSE, <<>>, PyNone, PyNone) }

\* arrays of one entry, and of two with the second one transient or not
ErrorArrays ==
    { ErrorList(<<a>>) : a \in ErrorEntries }
    \cup { ErrorList(<<a, b>>) :
             a \in ErrorEntries, b \in {TransientEntry, NotFoundEntry} }
    \cup { StringErrors }

\* One entry of the loop of is_transient_activityseries_500: "yes" (return
\* True), "no" (next entry) or "except" (an exception ends the loop).
EntryVerdict(e) ==
    IF ~e.dict THEN "except"
    ELSE IF e.path # <<"activitySeries">> THEN "no"
    ELSE IF e.message.ty = "int" /\ Truthy(e.message) THEN "except"
    ELSE IF e.code = PyInt("500")
            /\ Contains(Lower(OrEmpty(e.message)), "unexpected internal error")
         THEN "yes"
         ELSE "no"

RECURSIVE TransientFrom(_, _)
TransientFrom(es, i) ==
    IF i > Len(es) THEN FALSE
    ELSE LET verdict == EntryVerdict(es[i]) IN
         CASE verdict = "yes" -> TRUE
           [] verdict = "except" -> FALSE
           [] OTHER -> TransientFrom(es, i + 1)

\* the classification by the path alone
IsTransientPathOnly(errors) ==
    /\ errors.k = "list"
    /\ \E i \in 1..Len(errors.es) :
         errors.es[i].dict /\ errors.es[i].path = <<"activitySeries">>

\* the classification with the code compared as text: code == "500"
IsTransientCodeAsText(errors) ==
    /\ errors.k = "list"
    /\ \E i \in 1..Len(errors.es) :
         /\ errors.es[i].dict
         /\ errors.es[i].path = <<"activitySeries">>
         /\ errors.es[i].code = PyStr("500")
         /\ Contains(Lower(OrEmpty(errors.es[i].message)), "unexpected internal error")

is_transient_activityseries_500(errors) ==
    IF errors.k = "list" THEN TransientFrom(errors.es, 1) ELSE FALSE

---------------------------------------------------------------------------
(* The transport helper and the single-shot calls, each as the value it    *)
(* hands back for the response its request received.                       *)

\* the helper with a body that is not JSON swallowed: None, nothing written
PostGraphqlSilentJson(r) ==
    IF r.net \in {"neterr", "http"}
    THEN [k |-> "None", err |-> <<"GraphQL request failed">>]
    ELSE IF r.net = "badjson"
    THEN [k |-> "None", err |-> <<>>]
    ELSE IF ~r.obj
    THEN [k |-> "raise", err |-> <<>>]
    ELSE IF ErrorsTruthy(r.errors)
    THEN [k |-> "None", err |-> <<"GraphQL errors">>]
    ELSE [k |-> "data", err |-> <<>>]

\* the helper without its check of the errors member
PostGraphqlIgnoresErrors(r) ==
    IF r.net \in {"neterr", "http"}
    THEN [k |-> "None", err |-> <<"GraphQL request failed">>]
    ELSE IF r.net = "badjson"
    THEN [k |-> "None", err |-> <<"GraphQL response was not valid JSON">>]
    ELSE IF ~r.obj
    THEN [k |-> "raise", err |-> <<>>]
    ELSE [k |-> "data", err |-> <<>>]

\* "None" (a failure, reported on stderr), "data" (the decoded dict is
\* returned) or "raise" (data.get on a body that is not a dict).
post_graphql(r) ==
    IF r.net \in {"neterr", "http"}
    THEN [k |-> "None", err |-> <<"GraphQL request failed">>]
    ELSE IF r.net = "badjson"
    THEN [k |-> "None", err |-> <<"GraphQL response was not valid JSON">>]
    ELSE IF ~r.obj
    THEN [k |-> "raise", err |-> <<>>]
    ELSE IF ErrorsTruthy(r.errors)
    THEN [k |-> "None", err |-> <<"GraphQL errors">>]
    ELSE [k |-> "data", err |-> <<>>]

get_access_token(r) ==
    IF r.net \in {"neterr", "http", "badjson"} \/ ~r.obj
    THEN Raise(<<>>)
    ELSE Return(IF r.shape = "leaf" THEN r.leaf ELSE PyNone, <<>>)

\* `if not nodes: return None`, then nodes[0].get("id")
FirstNodeId(nodes) ==
    IF nodes.k = "null" \/ (nodes.k = "list" /\ nodes.ns = <<>>)
    THEN Return(PyNone, <<>>)
    ELSE IF nodes.k # "list" \/ ~nodes.ns[1].dict
    THEN Raise(<<>>)
    ELSE Return(nodes.ns[1].id, <<>>)

get_rubrik_sla_domain_id(r) ==
    LET result == post_graphql(r) IN
    IF result.k = "raise" THEN Raise(result.err)
    ELSE IF result.k = "None" \/ ~DictTruthy(r) THEN Return(PyNone, result.err)
    ELSE IF Subscript(r) # "ok"
    THEN Return(PyNone, <<"get_rubrik_sla_domain_id: unexpected response shape">>)
    ELSE FirstNodeId(r.nodes)

get_rubrik_repo_id(r) ==
    LET result == post_graphql(r) IN
    IF result.k = "raise" THEN Raise(result.err)
    ELSE IF result.k = "None" \/ ~DictTruthy(r) THEN Return(PyNone, result.err)
    ELSE IF Subscript(r) # "ok"
    THEN Return(PyNone, <<"get_rubrik_repo_id: unexpected response shape">>)
    ELSE FirstNodeId(r.nodes)

trigger_on_demand_snapshot(r) ==
    LET result == post_graphql(r) IN
    IF result.k = "raise" THEN Raise(result.err)
    ELSE IF result.k = "None" \/ ~DictTruthy(r) THEN Return(PyNone, result.err)
    ELSE IF Subscript(r) # "ok"
    THEN Return(PyNone, <<"trigger_on_demand_snapshot: unexpected response shape">>)
    ELSE IF ~Truthy(r.leaf)
    THEN Return(PyNone, <<"trigger_on_demand_snapshot: no taskchainId returned">>)
    ELSE Return(r.leaf, <<>>)

---------------------------------------------------------------------------
(* The status poller. *)

\* the comparison done without regard to case
IsTerminalAnyCase(v) == v.ty = "str" /\ Lower(v.s) \in {"success", "failure"}

\* status in ("Success", "Failure")
IsTerminal(v) == v \in {PyStr("Success"), PyStr("Failure")}

\* the loop body with the recorded status forgotten at a transient fault
PollIterationTransientResets(r, st) ==
    IF r.net \in {"neterr", "http"}
    THEN [k |-> "return", v |-> PyNone, st |-> st,
          err |-> <<"retrieve task status: request failed">>]
    ELSE IF r.net = "badjson"
    THEN [k |-> "return", v |-> PyNone, st |-> st,
          err |-> <<"retrieve task status: response was not valid JSON">>]
    ELSE IF ~r.obj
    THEN [k |-> "raise", v |-> PyNone, st |-> st, err |-> <<>>]
    ELSE IF ErrorsTruthy(r.errors)
    THEN IF is_transient_activityseries_500(r.errors)
         THEN [k |-> "sleep", v |-> PyNone, st |-> PyNone, err |-> <<>>]
         ELSE [k |-> "return", v |-> PyNone, st |-> st,
               err |-> <<"retrieve task status: GraphQL errors">>]
    ELSE IF Subscript(r) # "ok"
    THEN [k |-> "return", v |-> PyNone, st |-> st,
          err |-> <<"retrieve task status: unexpected response shape">>]
    ELSE IF IsTerminal(r.leaf)
    THEN [k |-> "return", v |-> r.leaf, st |-> r.leaf, err |-> <<>>]
    ELSE [k |-> "sleep", v |-> PyNone, st |-> r.leaf, err |-> <<>>]

\* the loop body with a transport failure retried like a transient fault
PollIterationRetriesTransport(r, st) ==
    IF r.net \in {"neterr", "http", "badjson"}
    THEN [k |-> "sleep", v |-> PyNone, st |-> st, err |-> <<>>]
    ELSE IF ~r.obj
    THEN [k |-> "raise", v |-> PyNone, st |-> st, err |-> <<>>]
    ELSE IF ErrorsTruthy(r.errors)
    THEN IF is_transient_activityseries_500(r.errors)
         THEN [k |-> "sleep", v |-> PyNone, st |-> st, err |-> <<>>]
         ELSE [k |-> "return", v |-> PyNone, st |-> st,
               err |-> <<"retrieve task status: GraphQL errors">>]
    ELSE IF Subscript(r) # "ok"
    THEN [k |-> "return", v |-> PyNone, st |-> st,
          err |-> <<"retrieve task status: unexpected response shape">>]
    ELSE IF IsTerminal(r.leaf)
    THEN [k |-> "return", v |-> r.leaf, st |-> r.leaf, err |-> <<>>]
    ELSE [k |-> "sleep", v |-> PyNone, st |-> r.leaf, err |-> <<>>]

\* One pass of the loop body of wait_for_activity_series from the request
\* to the next sleep or to the function's end, for response r:
\*   "return"  the function returns v;
\*   "raise"   an exception leaves the function;
\*   "sleep"   the loop sleeps and goes round again with status st.
PollIteration(r, st) ==
    IF r.net \in {"neterr", "http"}
    THEN [k |-> "return", v |-> PyNone, st |-> st,
          err |-> <<"retrieve task status: request failed">>]
    ELSE IF r.net = "badjson"
    THEN [k |-> "return", v |-> PyNone, st |-> st,
          err |-> <<"retrieve task status: response was not valid JSON">>]
    ELSE IF ~r.obj
    THEN [k |-> "raise", v |-> PyNone, st |-> st, err |-> <<>>]
    ELSE IF ErrorsTruthy(r.errors)
    THEN IF is_transient_activityseries_500(r.errors)
         THEN [k |-> "sleep", v |-> PyNone, st |-> st, err |-> <<>>]
         ELSE [k |-> "return", v |-> PyNone, st |-> st,
               err |-> <<"retrieve task status: GraphQL errors">>]
    ELSE IF Subscript(r) # "ok"
    THEN [k |-> "return", v |-> PyNone, st |-> st,
          err |-> <<"retrieve task status: unexpected response shape">>]
    ELSE IF IsTerminal(r.leaf)
    THEN [k |-> "return", v |-> r.leaf, st |-> r.leaf, err |-> <<>>]
    ELSE [k |-> "sleep", v |-> PyNone, st |-> r.leaf, err |-> <<>>]

---------------------------------------------------------------------------
(* main's mapping of final_status to its return value. *)

\* any status the poller returned counts as success
MainResultAnyStatus(fs, wait) ==
    IF ~Truthy(fs)
    THEN [rc |-> 1, err |-> <<"Backup failed due to earlier error.">>]
    ELSE [rc |-> 0, err |-> <<>>]

MainResult(fs, wait) ==
    IF ~Truthy(fs)
    THEN [rc |-> 1, err |-> <<"Backup failed due to earlier error.">>]
    ELSE IF ~wait THEN [rc |-> 0, err |-> <<>>]
    ELSE IF fs = PyStr("Success") THEN [rc |-> 0, err |-> <<>>]
    ELSE [rc |-> 1, err |-> <<"Backup completed with Failure.">>]

---------------------------------------------------------------------------
(* The responses the backend can give to each request. *)

ShapeFailures ==
    { Body(NoErrors, sh, PyNone, NoNodes) : sh \in BrokenShapes }

\* A few GraphQL-level failures for the single-shot calls.
CallErrors ==
    { Body(e, "no_data", PyNone, NoNodes) :
        e \in { ErrorList(<<TransientEntry>>),
                ErrorList(<<NotFoundEntry>>),
                StringErrors } }

TokenResponses ==
    TransportFailures \cup {NonObjectBody}
    \cup { Body(NoErrors, "no_leaf", PyNone, NoNodes) }
    \cup { Body(NoErrors, "leaf", v, NoNodes) :
             v \in {PyNone, PyStr(""), PyStr("abc")} }

Node(dict, id) == [dict |-> dict, id |-> id]

\* the nodes a lookup can list, for the IDs the backend knows
NodesOf(ids) ==
    { Node(TRUE, PyStr(i)) : i \in ids }
    \cup { Node(TRUE, PyNone), Node(FALSE, PyNone) }

NodeLists(ids) ==
    { NoNodes, ObjectNodes, NodeList(<<>>) }
    \cup { NodeList(<<a>>) : a \in NodesOf(ids) }
    \cup { NodeList(<<a, b>>) : a \in NodesOf(ids), b \in NodesOf(ids) }

LookupResponses(ids) ==
    TransportFailures \cup {NonObjectBody} \cup CallErrors \cup ShapeFailures
    \cup { Body(e, "leaf", PyNone, n) :
             e \in {NoErrors, NullErrors, ErrorList(<<>>)}, n \in NodeLists(ids) }
    \cup { Body(ErrorList(<<TransientEntry>>), "leaf", PyNone,
                NodeList(<<Node(TRUE, PyStr(i))>>)) : i \in ids }

RepoResponses == LookupResponses({"R1", "R2"})
SlaResponses == LookupResponses({"P1", "P2"})

TriggerResponses ==
    TransportFailures \cup {NonObjectBody} \cup CallErrors \cup ShapeFailures
    \cup { Body(NoErrors, "leaf", v, NoNodes) :
             v \in {PyNone, PyStr(""), PyStr("T1"), PyStr("T2")} }
    \cup { Body(ErrorList(<<TransientEntry>>), "leaf", PyStr("T1"), NoNodes) }

StatusValues ==
    { PyStr("Success"), PyStr("Failure"), PyStr("success"), PyStr("FAILURE"),
      PyStr("Running"), PyStr("Queued"), PyStr(""), PyNone }

StatusResponses ==
    TransportFailures \cup {NonObjectBody} \cup ShapeFailures
    \cup { Body(e, "no_data", PyNone, NoNodes) : e \in ErrorArrays }
    \cup { Body(e, "data_null", PyNone, NoNodes) :
             e \in {NullErrors, ErrorList(<<>>)} }
    \cup { Body(NoErrors, "leaf", v, NoNodes) : v \in StatusValues }
    \cup { Body(e, "leaf", v, NoNodes) :
             e \in {NullErrors, ErrorList(<<>>), ErrorList(<<TransientEntry>>)},
             v \in {PyStr("Success"), PyStr("Running")} }

---------------------------------------------------------------------------
(* The environment main() starts from. *)

UriInputs == {PyNone, PyStr(" / "), PyStr("https://rsc/")}
ClientIdInputs == {PyNone, PyStr(" "), PyStr("client")}
ClientSecretInputs == {PyNone, PyStr("secret")}
RepoInputs == {PyNone, PyStr(""), PyStr("owner/repo"), PyStr("repo")}
SlaInputs == {PyNone, PyStr("Gold")}
WaitInputs == {PyNone, PyStr("false"), PyStr(" False "), PyStr("0")}

Environments ==
    [RUBRIK_RSC_URI : UriInputs, RUBRIK_CLIENT_ID : ClientIdInputs,
     RUBRIK_CLIENT_SECRET : ClientSecretInputs, GITHUB_REPO_NAME : RepoInputs,
     RUBRIK_SLA_DOMAIN_NAME : SlaInputs, WAIT_FOR_COMPLETION : WaitInputs]

\* values of the optional flag, for the reading of the configuration alone
WaitFlagInputs ==
    { PyNone, PyStr(""), PyStr("0"), PyStr("no"), PyStr("true"), PyStr("falsey"),
      PyStr("false"), PyStr("False"), PyStr("FALSE"), PyStr("FaLsE"),
      PyStr(" false"), PyStr("false "), PyStr(" False "), PyStr("\tFALSE\t") }

ConfigEnvironments ==
    [RUBRIK_RSC_URI : UriInputs, RUBRIK_CLIENT_ID : ClientIdInputs,
     RUBRIK_CLIENT_SECRET : ClientSecretInputs, GITHUB_REPO_NAME : RepoInputs,
     RUBRIK_SLA_DOMAIN_NAME : SlaInputs, WAIT_FOR_COMPLETION : WaitFlagInputs]

\* main's locals, lines 350-355
ReadConfig(e) ==
    [rsc_uri |-> normalize_base_uri(e.RUBRIK_RSC_URI),
     client_id |-> Strip(OrEmpty(e.RUBRIK_CLIENT_ID)),
     client_secret |-> Strip(OrEmpty(e.RUBRIK_CLIENT_SECRET)),
     github_repo |-> Strip(OrEmpty(e.GITHUB_REPO_NAME)),
     sla_domain_name |-> Strip(OrEmpty(e.RUBRIK_SLA_DOMAIN_NAME)),
     wait_for_completion |->
         str_to_bool(GetEnvDefault(e.WAIT_FOR_COMPLETION, "true"), TRUE)]

\* only the first missing name is reported
MissingOfFirstOnly(c) ==
    IF c.rsc_uri = "" THEN <<"RUBRIK_RSC_URI">>
    ELSE IF c.client_id = "" THEN <<"RUBRIK_CLIENT_ID">>
    ELSE IF c.client_secret = "" THEN <<"RUBRIK_CLIENT_SECRET">>
    ELSE IF c.github_repo = "" THEN <<"GITHUB_REPO_NAME">>
    ELSE IF c.sla_domain_name = "" THEN <<"RUBRIK_SLA_DOMAIN_NAME">>
    ELSE <<>>

\* main's list `missing`, lines 357-367
MissingOf(c) ==
    (IF c.rsc_uri = "" THEN <<"RUBRIK_RSC_URI">> ELSE <<>>)
    \o (IF c.client_id = "" THEN <<"RUBRIK_CLIENT_ID">> ELSE <<>>)
    \o (IF c.client_secret = "" THEN <<"RUBRIK_CLIENT_SECRET">> ELSE <<>>)
    \o (IF c.github_repo = "" THEN <<"GITHUB_REPO_NAME">> ELSE <<>>)
    \o (IF c.sla_domain_name = "" THEN <<"RUBRIK_SLA_DOMAIN_NAME">> ELSE <<>>)

NoConfig ==
    [rsc_uri |-> "", client_id |-> "", client_secret |-> "", github_repo |-> "",
     sla_domain_name |-> "", wait_for_completion |-> TRUE]

---------------------------------------------------------------------------
(* The log of interactions. *)

Event(op, a, b, secs) == [op |-> op, a |-> a, b |-> b, secs |-> secs]

\* sleep_seconds(seconds)
sleep_seconds(seconds) == Event("sleep", PyNone, PyNone, seconds)

\* the grace period of take_on_demand_snapshot and the poll interval it passes
GraceSeconds == 10
PollSeconds == 10

Count(op) == Cardinality({ i \in 1..Len(log) : log[i].op = op })

---------------------------------------------------------------------------
(* The run. *)

\* main's locals and the outside world before main's first statement
Fresh ==
    /\ pc = "main"
    /\ cfg = NoConfig
    /\ missing = <<>>
    /\ token = PyNone
    /\ repo_id = PyNone
    /\ sla_domain_id = PyNone
    /\ taskchain_id = PyNone
    /\ status = PyNone
    /\ final_status = PyNone
    /\ resp = NoResponse
    /\ log = <<>>
    /\ stderr = <<>>
    /\ raised = ""
    /\ rc = -1

Init == env \in Environments /\ Fresh

\* main returns code, having written errs to stderr
Exit(code, errs) ==
    /\ pc' = "done"
    /\ rc' = code
    /\ stderr' = stderr \o errs
    /\ raised' = ""

\* no handler in main: the exception leaves it and main returns nothing
ExceptEscapes(who, errs) ==
    /\ pc' = "done"
    /\ rc' = -1
    /\ stderr' = stderr \o errs
    /\ raised' = who

\* an exception reaches main's `except Exception`, lines 408-410
Except(who, errs) ==
    /\ pc' = "done"
    /\ rc' = 1
    /\ stderr' = stderr \o errs \o <<"Critical Error">>
    /\ raised' = who

\* main goes on to its next interaction
Goto(next, errs) ==
    /\ pc' = next
    /\ stderr' = stderr \o errs
    /\ UNCHANGED <<raised, rc>>

\* lines 350-371: read the environment, list what is missing
Main ==
    /\ pc = "main"
    /\ cfg' = ReadConfig(env)
    /\ missing' = MissingOf(cfg')
    /\ IF missing' # <<>>
       THEN Exit(1, <<"Missing required environment variables">>)
       ELSE Goto("get_access_token", <<>>)
    /\ UNCHANGED <<env, token, repo_id, sla_domain_id, taskchain_id, status,
                   final_status, resp, log>>

\* lines 374-377
GetAccessToken ==
    /\ pc = "get_access_token"
    /\ \E r \in TokenResponses :
         LET got == get_access_token(r) IN
         /\ resp' = r
         /\ log' = Append(log, Event("token", PyStr(cfg.client_id),
                                     PyStr(cfg.client_secret), 0))
         /\ IF got.raise
            THEN /\ Except("get_access_token", got.err)
                 /\ UNCHANGED token
            ELSE /\ token' = got.v
                 /\ IF ~Truthy(got.v)
                    THEN Exit(1, got.err \o <<"Failed to obtain access token.">>)
                    ELSE Goto("get_rubrik_repo_id", got.err)
    /\ UNCHANGED <<env, cfg, missing, repo_id, sla_domain_id, taskchain_id,
                   status, final_status>>

\* the repository lookup without main's check of its result
GetRepoIdUnchecked ==
    /\ pc = "get_rubrik_repo_id"
    /\ \E r \in RepoResponses :
         LET got == get_rubrik_repo_id(r) IN
         /\ resp' = r
         /\ log' = Append(log, Event("repo", PyStr(LastSegment(cfg.github_repo)),
                                     token, 0))
         /\ IF got.raise
            THEN /\ Except("get_rubrik_repo_id", got.err)
                 /\ UNCHANGED repo_id
            ELSE /\ repo_id' = got.v
                 /\ Goto("get_rubrik_sla_domain_id", got.err)
    /\ UNCHANGED <<env, cfg, missing, token, sla_domain_id, taskchain_id, status,
                   final_status>>

\* lines 379-383, with get_rubrik_repo_id's own guard of lines 155-157
GetRepoId ==
    /\ pc = "get_rubrik_repo_id"
    /\ IF cfg.github_repo = ""
       THEN /\ repo_id' = PyNone
            /\ Exit(1, <<"get_rubrik_repo_id: github_repo must be provided",
                         "Repo not found in Rubrik (repo_id is empty).">>)
            /\ UNCHANGED <<resp, log>>
       ELSE \E r \in RepoResponses :
              LET got == get_rubrik_repo_id(r) IN
              /\ resp' = r
              /\ log' = Append(log, Event("repo", PyStr(LastSegment(cfg.github_repo)),
                                          token, 0))
              /\ IF got.raise
                 THEN /\ Except("get_rubrik_repo_id", got.err)
                      /\ UNCHANGED repo_id
                 ELSE /\ repo_id' = got.v
                      /\ IF ~Truthy(got.v)
                         THEN Exit(1, got.err
                                 \o <<"Repo not found in Rubrik (repo_id is empty).">>)
                         ELSE Goto("get_rubrik_sla_domain_id", got.err)
    /\ UNCHANGED <<env, cfg, missing, token, sla_domain_id, taskchain_id, status,
                   final_status>>

\* lines 385-389
GetSlaDomainId ==
    /\ pc = "get_rubrik_sla_domain_id"
    /\ \E r \in SlaResponses :
         LET got == get_rubrik_sla_domain_id(r) IN
         /\ resp' = r
         /\ log' = Append(log, Event("sla", PyStr(cfg.sla_domain_name), token, 0))
         /\ IF got.raise
            THEN /\ Except("get_rubrik_sla_domain_id", got.err)
                 /\ UNCHANGED sla_domain_id
            ELSE /\ sla_domain_id' = got.v
                 /\ IF ~Truthy(got.v)
                    THEN Exit(1, got.err
                            \o <<"SLA Domain not found in Rubrik (sla_domain_id is empty).">>)
                    ELSE Goto("trigger_on_demand_snapshot", got.err)
    /\ UNCHANGED <<env, cfg, missing, token, repo_id, taskchain_id, status,
                   final_status>>

\* line 391 into take_on_demand_snapshot, lines 330-334; a trigger that
\* yields no ID returns None to main, lines 393-395
TriggerSnapshot ==
    /\ pc = "trigger_on_demand_snapshot"
    /\ \E r \in TriggerResponses :
         LET got == trigger_on_demand_snapshot(r) IN
         /\ resp' = r
         /\ log' = Append(log, Event("trigger", repo_id, sla_domain_id, 0))
         /\ IF got.raise
            THEN /\ Except("trigger_on_demand_snapshot", got.err)
                 /\ UNCHANGED <<taskchain_id, final_status>>
            ELSE /\ taskchain_id' = got.v
                 /\ IF ~Truthy(got.v)
                    THEN /\ final_status' = PyNone
                         /\ Exit(MainResult(PyNone, cfg.wait_for_completion).rc,
                                 got.err
                                 \o MainResult(PyNone, cfg.wait_for_completion).err)
                    ELSE /\ UNCHANGED final_status
                         /\ Goto("grace_sleep", got.err)
    /\ UNCHANGED <<env, cfg, missing, token, repo_id, sla_domain_id, status>>

\* take_on_demand_snapshot without its sleep
GraceSleepSkipped ==
    /\ pc = "grace_sleep"
    /\ IF ~cfg.wait_for_completion
       THEN /\ final_status' = PyStr("Triggered")
            /\ Exit(MainResult(final_status', cfg.wait_for_completion).rc,
                    MainResult(final_status', cfg.wait_for_completion).err)
            /\ UNCHANGED status
       ELSE /\ status' = PyNone
            /\ UNCHANGED final_status
            /\ Goto("wait_for_activity_series", <<>>)
    /\ UNCHANGED <<env, cfg, missing, token, repo_id, sla_domain_id, taskchain_id,
                   resp, log>>

\* the grace period, then the poller whatever the flag says
GraceSleepAlwaysWaits ==
    /\ pc = "grace_sleep"
    /\ log' = Append(log, sleep_seconds(GraceSeconds))
    /\ status' = PyNone
    /\ Goto("wait_for_activity_series", <<>>)
    /\ UNCHANGED <<env, cfg, missing, token, repo_id, sla_domain_id, taskchain_id,
                   final_status, resp>>

\* lines 337-342: the grace period; then either 'Triggered' goes back to
\* main (lines 393-399) or wait_for_activity_series is entered (line 280)
GraceSleep ==
    /\ pc = "grace_sleep"
    /\ log' = Append(log, sleep_seconds(GraceSeconds))
    /\ IF ~cfg.wait_for_completion
       THEN /\ final_status' = PyStr("Triggered")
            /\ Exit(MainResult(final_status', cfg.wait_for_completion).rc,
                    MainResult(final_status', cfg.wait_for_completion).err)
            /\ UNCHANGED status
       ELSE /\ status' = PyNone
            /\ UNCHANGED final_status
            /\ Goto("wait_for_activity_series", <<>>)
    /\ UNCHANGED <<env, cfg, missing, token, repo_id, sla_domain_id, taskchain_id,
                   resp>>

\* the loop with a limit of two attempts, None returned at the third
PollRequestGivesUp ==
    /\ pc = "wait_for_activity_series"
    /\ Count("status") < MaxPolls
    /\ IF IsTerminal(status) \/ Count("status") >= 2
       THEN /\ final_status' = PyNone
            /\ Exit(MainResult(PyNone, cfg.wait_for_completion).rc,
                    MainResult(PyNone, cfg.wait_for_completion).err)
            /\ UNCHANGED <<status, resp, log>>
       ELSE \E r \in StatusResponses :
              LET it == PollIteration(r, status) IN
              /\ resp' = r
              /\ log' = Append(log, Event("status", taskchain_id, token, 0))
              /\ status' = it.st
              /\ CASE it.k = "raise" ->
                        /\ Except("wait_for_activity_series", it.err)
                        /\ UNCHANGED final_status
                   [] it.k = "return" ->
                        /\ final_status' = it.v
                        /\ Exit(MainResult(it.v, cfg.wait_for_completion).rc,
                                it.err \o MainResult(it.v, cfg.wait_for_completion).err)
                   [] it.k = "sleep" ->
                        /\ UNCHANGED final_status
                        /\ Goto("poll_sleep", it.err)
    /\ UNCHANGED <<env, cfg, missing, token, repo_id, sla_domain_id, taskchain_id>>

\* lines 281-322: the loop test, one status query and what its response
\* leads to, up to the next sleep or to main's return
PollRequest ==
    /\ pc = "wait_for_activity_series"
    /\ Count("status") < MaxPolls
    /\ IF IsTerminal(status)
       THEN /\ final_status' = status
            /\ Exit(MainResult(status, cfg.wait_for_completion).rc,
                    MainResult(status, cfg.wait_for_completion).err)
            /\ UNCHANGED <<status, resp, log>>
       ELSE \E r \in StatusResponses :
              LET it == PollIteration(r, status) IN
              /\ resp' = r
              /\ log' = Append(log, Event("status", taskchain_id, token, 0))
              /\ status' = it.st
              /\ CASE it.k = "raise" ->
                        /\ Except("wait_for_activity_series", it.err)
                        /\ UNCHANGED final_status
                   [] it.k = "return" ->
                        /\ final_status' = it.v
                        /\ Exit(MainResult(it.v, cfg.wait_for_completion).rc,
                                it.err \o MainResult(it.v, cfg.wait_for_completion).err)
                   [] it.k = "sleep" ->
                        /\ UNCHANGED final_status
                        /\ Goto("poll_sleep", it.err)
    /\ UNCHANGED <<env, cfg, missing, token, repo_id, sla_domain_id, taskchain_id>>

\* the retry taken one level up: the snapshot is requested again
PollSleepRetriggers ==
    /\ pc = "poll_sleep"
    /\ log' = Append(log, sleep_seconds(PollSeconds))
    /\ Goto("trigger_on_demand_snapshot", <<>>)
    /\ UNCHANGED <<env, cfg, missing, token, repo_id, sla_domain_id, taskchain_id,
                   status, final_status, resp>>

\* line 303 or line 320: sleep_seconds(poll_seconds), back to the loop test
PollSleep ==
    /\ pc = "poll_sleep"
    /\ log' = Append(log, sleep_seconds(PollSeconds))
    /\ Goto("wait_for_activity_series", <<>>)
    /\ UNCHANGED <<env, cfg, missing, token, repo_id, sla_domain_id, taskchain_id,
                   status, final_status, resp>>

Next ==
    \/ Main
    \/ GetAccessToken
    \/ GetRepoId
    \/ GetSlaDomainId
    \/ TriggerSnapshot
    \/ GraceSleep
    \/ PollRequest
    \/ PollSleep

Spec == Init /\ [][Next]_vars

\* main's reading of the configuration alone (lines 350-371), over a wider
\* range of values of the flag
InitConfig == env \in ConfigEnvironments /\ Fresh

SpecConfig == InitConfig /\ [][Main]_vars

\* The run under fair scheduling: the program is one sequential thread, each
\* request carries a timeout (timeout=30, lines 73 and 103) and each sleep
\* ends, so a step that is possible is eventually taken.
SpecFair == Spec /\ WF_vars(Next)

TypeOK ==
    /\ pc \in {"main", "get_access_token", "get_rubrik_repo_id",
               "get_rubrik_sla_domain_id", "trigger_on_demand_snapshot",
               "grace_sleep", "wait_for_activity_series", "poll_sleep", "done"}
    /\ rc \in {-1, 0, 1}
    /\ (pc = "done") = (rc # -1)

---------------------------------------------------------------------------
(* Vocabulary of the properties. *)

Last(q) == q[Len(q)]

\* the step taken is a status query of the poller
StatusQueryStep ==
    /\ pc = "wait_for_activity_series"
    /\ log' = Append(log, Event("status", taskchain_id, token, 0))

\* the step taken is a wait of the poll interval, back to the loop
PollWaitStep ==
    /\ pc' = "wait_for_activity_series"
    /\ log' = Append(log, Event("sleep", PyNone, PyNone, 10))

\* r has no errors array to speak of: the member is absent, null or []
ErrorFree(r) ==
    /\ r.net = "json"
    /\ r.obj
    /\ r.errors.k \in {"absent", "null"} \/ (r.errors.k = "list" /\ r.errors.es = <<>>)

\* r is an error-free response whose lastActivityStatus is v
CarriesStatus(r, v) == ErrorFree(r) /\ r.shape = "leaf" /\ r.leaf = v

\* wait_for_activity_series returned v to main in this step
PollerReturned(v) == pc' = "done" /\ raised' = "" /\ final_status' = v

\* wait_for_activity_series is still in its loop after this step
PollerGoesOn == pc' = "poll_sleep" /\ rc' = -1 /\ final_status' = final_status

\* e bears the signature: path ['activitySeries'], code 500, the message
HasSignature(e) ==
    /\ e.dict
    /\ e.path = <<"activitySeries">>
    /\ e.code = PyInt("500")
    /\ e.message.ty = "str"
    /\ Contains(Lower(e.message.s), "unexpected internal error")

\* an errors array of well-formed entries, one of them bearing the signature
MatchesSignature(errors) ==
    /\ errors.k = "list"
    /\ \E i \in 1..Len(errors.es) : HasSignature(errors.es[i])
    /\ \A i \in 1..Len(errors.es) :
         errors.es[i].dict /\ errors.es[i].message.ty \in {"none", "str"}

TransientResponse(r) == r.net = "json" /\ r.obj /\ MatchesSignature(r.errors)

\* every required input holds something once it is normalised
AllInputsPresent ==
    /\ normalize_base_uri(env.RUBRIK_RSC_URI) # ""
    /\ \A v \in {env.RUBRIK_CLIENT_ID, env.RUBRIK_CLIENT_SECRET,
                 env.GITHUB_REPO_NAME, env.RUBRIK_SLA_DOMAIN_NAME} :
         v.ty = "str" /\ Strip(v.s) # ""

\* the request the latest response answers
LastRequest ==
    LET sent == { i \in 1..Len(log) : log[i].op # "sleep" } IN
    IF sent = {} THEN "none"
    ELSE log[CHOOSE i \in sent : \A j \in sent : j <= i].op

\* the place of an interaction in the order of a run
Rank(op) ==
    CASE op = "token" -> 1
      [] op = "repo" -> 2
      [] op = "sla" -> 3
      [] op = "trigger" -> 4
      [] OTHER -> 5

---------------------------------------------------------------------------
(* C1: the poller returns 'Success' or 'Failure' only when the response    *)
(* just received carried exactly that string as lastActivityStatus; on     *)
(* any other status string (another case, another word) it does not        *)
(* return: it waits the poll interval and queries again.                   *)

C1_ExactTerminalMatch ==
    [][ /\ StatusQueryStep =>
            /\ \A v \in {PyStr("Success"), PyStr("Failure")} :
                 PollerReturned(v) => CarriesStatus(resp', v)
            /\ ( /\ ErrorFree(resp')
                 /\ resp'.shape = "leaf"
                 /\ resp'.leaf.ty = "str"
                 /\ resp'.leaf \notin {PyStr("Success"), PyStr("Failure")} )
               => PollerGoesOn /\ status' = resp'.leaf
        /\ pc = "poll_sleep" => PollWaitStep
        /\ pc = "wait_for_activity_series" => StatusQueryStep
      ]_vars

\* a run that polled more than once and then returned the 'Failure' it received
C1_Witness ==
    /\ pc = "done"
    /\ final_status = PyStr("Failure")
    /\ CarriesStatus(resp, PyStr("Failure"))
    /\ Count("status") >= 2

---------------------------------------------------------------------------
(* C2: a status response whose errors array matches the transient          *)
(* signature does not end the poller: whatever came before, it waits the   *)
(* poll interval and sends the same status query again, its status         *)
(* untouched; and a terminal status received after a transient fault is    *)
(* returned as usual.                                                      *)

C2_TransientFaultRetries ==
    [][ /\ (StatusQueryStep /\ TransientResponse(resp'))
              => PollerGoesOn /\ status' = status /\ taskchain_id' = taskchain_id
        /\ (pc = "poll_sleep" /\ TransientResponse(resp))
              => PollWaitStep /\ status' = status /\ taskchain_id' = taskchain_id
        /\ ( /\ StatusQueryStep
             /\ TransientResponse(resp)
             /\ \E v \in {PyStr("Success"), PyStr("Failure")} :
                  CarriesStatus(resp', v) )
              => PollerReturned(resp'.leaf)
      ]_vars

\* the second transient fault in a row, the poller about to wait again
C2_Witness ==
    /\ pc = "poll_sleep"
    /\ status = PyNone
    /\ Count("status") >= 2
    /\ resp.errors = ErrorList(<<TransientEntry>>)

---------------------------------------------------------------------------
(* C3: when main has returned, its return value is 0 exactly if all five   *)
(* required inputs were present, a non-empty token, repository ID, policy  *)
(* ID and series ID were obtained, and waiting was disabled or the poller  *)
(* returned 'Success'; in every other finished run it is 1.                *)

C3_ExitCode ==
    pc = "done" =>
        /\ rc \in {0, 1}
        /\ rc = 0 <=>
             /\ AllInputsPresent
             /\ Truthy(token)
             /\ Truthy(repo_id)
             /\ Truthy(sla_domain_id)
             /\ Truthy(taskchain_id)
             /\ \/ ~cfg.wait_for_completion
                \/ raised = "" /\ final_status = PyStr("Success")

\* a run that waited, polled more than once and ended with 0
C3_Witness ==
    /\ pc = "done"
    /\ rc = 0
    /\ cfg.wait_for_completion
    /\ final_status = PyStr("Success")
    /\ Count("status") >= 2

---------------------------------------------------------------------------
(* C4: an error-free status response without a parseable status (a key of  *)
(* the path missing, an object on the path null, or the value null) makes  *)
(* the poller return absent at once, so that main returns 1; it is never   *)
(* taken for 'still running'.                                              *)

C4_AbsentStatusIsFatal ==
    ( /\ log # <<>>
      /\ Last(log).op = "status"
      /\ ErrorFree(resp)
      /\ resp.shape # "leaf" \/ resp.leaf = PyNone )
    => pc = "done" /\ final_status = PyNone /\ rc = 1

---------------------------------------------------------------------------
(* C5: with waiting disabled no status query is ever sent, and once the    *)
(* trigger has yielded a series ID take_on_demand_snapshot returns         *)
(* 'Triggered' and main returns 0.                                         *)

C5_NoWaitNoPolling ==
    (pc # "main" /\ ~cfg.wait_for_completion) =>
        /\ Count("status") = 0
        /\ pc \notin {"wait_for_activity_series", "poll_sleep"}
        /\ (pc = "done" /\ Truthy(taskchain_id)) =>
               final_status = PyStr("Triggered") /\ rc = 0

\* a finished run with waiting disabled and a series ID from the trigger
C5_Witness ==
    /\ pc = "done"
    /\ ~cfg.wait_for_completion
    /\ taskchain_id = PyStr("T1")
    /\ Last(log) = Event("sleep", PyNone, PyNone, 10)
    /\ rc = 0

---------------------------------------------------------------------------
(* C6: a run sends the trigger mutation at most once, whatever the         *)
(* responses to it and to the status queries are.                          *)

C6_TriggerAtMostOnce == Count("trigger") <= 1

\* a finished run that polled up to the bound after its one trigger
C6_Witness ==
    /\ pc = "done"
    /\ Count("trigger") = 1
    /\ Count("status") = MaxPolls

---------------------------------------------------------------------------
(* C7: a status query that fails in transport (no response, a non-2xx      *)
(* status, a body that is not JSON) ends the poller with absent at once:   *)
(* nothing is sent and no wait is taken after it, also when earlier polls  *)
(* of the run were retried.                                                *)

C7_TransportFailureIsFatal ==
    (Count("status") > 0 /\ resp.net \in {"neterr", "http", "badjson"}) =>
        /\ Last(log).op = "status"
        /\ pc = "done"
        /\ raised = ""
        /\ final_status = PyNone
        /\ rc = 1

\* a body that is not JSON, after two polls that were retried
C7_Witness ==
    /\ resp.net = "badjson"
    /\ Count("status") = 3
    /\ Count("sleep") = 3
    /\ pc = "done"

---------------------------------------------------------------------------
(* C8: on a response with a non-empty errors array the two lookups and     *)
(* the trigger return absent, the transient signature included; the        *)
(* poller retries when the array matches the transient signature and       *)
(* returns absent, without a wait or a retry, when no entry bears it.      *)

C8_ErrorsArray ==
    (resp.net = "json" /\ resp.obj /\ resp.errors.k = "list" /\ resp.errors.es # <<>>) =>
        /\ LastRequest = "repo" =>
             pc = "done" /\ raised = "" /\ repo_id = PyNone /\ rc = 1
        /\ LastRequest = "sla" =>
             pc = "done" /\ raised = "" /\ sla_domain_id = PyNone /\ rc = 1
        /\ LastRequest = "trigger" =>
             pc = "done" /\ raised = "" /\ taskchain_id = PyNone /\ rc = 1
        /\ (LastRequest = "status" /\ MatchesSignature(resp.errors)) =>
             pc \in {"poll_sleep", "wait_for_activity_series"} /\ rc = -1
        /\ ( /\ LastRequest = "status"
             /\ \A i \in 1..Len(resp.errors.es) : ~HasSignature(resp.errors.es[i]) ) =>
             /\ Last(log).op = "status"
             /\ pc = "done" /\ raised = "" /\ final_status = PyNone /\ rc = 1

\* the trigger answered with the transient signature beside a series ID
C8_Witness ==
    /\ LastRequest = "trigger"
    /\ resp.errors = ErrorList(<<TransientEntry>>)
    /\ resp.leaf = PyStr("T1")
    /\ taskchain_id = PyNone
    /\ pc = "done"

---------------------------------------------------------------------------
(* C9: the interactions of a run come in the order token request,          *)
(* repository lookup, policy lookup, trigger, then waits and status        *)
(* queries, none of them before the configuration is validated, and each   *)
(* is made only with the results of the earlier ones in hand: a non-empty  *)
(* token for the lookups, a repository ID for the policy lookup, both IDs  *)
(* for the trigger, a series ID for anything after it.                     *)

C9_StepOrder ==
    /\ pc = "main" => log = <<>>
    /\ log # <<>> => AllInputsPresent /\ missing = <<>>
    /\ \A i \in 1..Len(log) : Rank(log[i].op) = (IF i <= 4 THEN i ELSE 5)
    /\ Len(log) >= 2 => Truthy(token) /\ log[2].b = token
    /\ Len(log) >= 3 => Truthy(repo_id) /\ log[3].b = token
    /\ Len(log) >= 4 =>
         Truthy(sla_domain_id) /\ log[4] = Event("trigger", repo_id, sla_domain_id, 0)
    /\ Len(log) >= 5 => Truthy(taskchain_id)

\* a run that went through every step and into the poller
C9_Witness ==
    /\ pc = "done"
    /\ Len(log) >= 6
    /\ log[6] = Event("status", PyStr("T2"), PyStr("abc"), 0)

---------------------------------------------------------------------------
(* C10: the interaction right after the trigger mutation is the wait of    *)
(* the grace period, and every status query comes right after a wait:      *)
(* no status query follows the trigger directly.                           *)

C10_GraceBeforeFirstQuery ==
    \A i \in 1..Len(log) :
        /\ (log[i].op = "trigger" /\ i < Len(log)) =>
               log[i + 1] = Event("sleep", PyNone, PyNone, 10)
        /\ log[i].op = "status" => (i > 1 /\ log[i - 1].op = "sleep")

\* the first status query of a run, sent after the grace period
C10_Witness ==
    /\ Count("status") = 1
    /\ Len(log) = 6
    /\ log[4].op = "trigger"
    /\ log[5].op = "sleep"
    /\ log[6].op = "status"


---------------------------------------------------------------------------
(* Vocabulary of the poller's responses, after the taxonomy of spec.md. *)

\* the places of the status queries in the log
StatusQueries == { i \in 1..Len(log) : log[i].op = "status" }

\* r carries a terminal status on an error-free response
TerminalResponse(r) ==
    \E v \in {PyStr("Success"), PyStr("Failure")} : CarriesStatus(r, v)

\* some entry of the errors array bears the signature
SomeEntryHasSignature(errors) ==
    /\ errors.k = "list"
    /\ \E i \in 1..Len(errors.es) : HasSignature(errors.es[i])

\* an entry the examination cannot read: not an object, or an entry on the
\* path whose message is a number
Unreadable(e) ==
    \/ ~e.dict
    \/ e.path = <<"activitySeries">> /\ e.message.ty = "int" /\ Truthy(e.message)

\* an entry bears the signature and every entry before it can be read
SignatureFound(errors) ==
    /\ errors.k = "list"
    /\ \E i \in 1..Len(errors.es) :
         /\ HasSignature(errors.es[i])
         /\ \A j \in 1..(i - 1) : ~Unreadable(errors.es[j])

\* r is a transient fault to the poller: a body whose errors array has the
\* signature found in it
TransientFault(r) == r.net = "json" /\ r.obj /\ SignatureFound(r.errors)

\* r neither ends the poll nor is an error to it: a transient fault, or a
\* status string that is not terminal
Continuing(r) ==
    \/ TransientResponse(r)
    \/ /\ ErrorFree(r)
       /\ r.shape = "leaf"
       /\ r.leaf.ty = "str"
       /\ r.leaf \notin {PyStr("Success"), PyStr("Failure")}

\* r is fatal to the poll: a transport error, a protocol error (an errors
\* array in which no signature is found) or a shape error (an error-free
\* response without a status string)
FatalResponse(r) ==
    \/ r.net # "json"
    \/ ~r.obj
    \/ ErrorsTruthy(r.errors) /\ ~SignatureFound(r.errors)
    \/ ErrorFree(r) /\ (r.shape # "leaf" \/ r.leaf.ty # "str")

---------------------------------------------------------------------------
(* C11: between two consecutive status queries of a run lies exactly one   *)
(* wait of the poll interval (10 seconds), never two queries back to back  *)
(* and never two waits; and the poller does not wait after a response      *)
(* that carried a terminal status or was a fatal error.                    *)

C11_OneWaitBetweenQueries ==
    /\ \A i \in StatusQueries :
         /\ i < Len(log) => log[i + 1] = Event("sleep", PyNone, PyNone, 10)
         /\ i + 1 < Len(log) => log[i + 2].op = "status"
    /\ (StatusQueries # {} /\ Last(log).op = "sleep")
          => ~TerminalResponse(resp) /\ ~FatalResponse(resp)


---------------------------------------------------------------------------
(* Vocabulary of the required inputs. *)

RequiredNames ==
    {"RUBRIK_RSC_URI", "RUBRIK_CLIENT_ID", "RUBRIK_CLIENT_SECRET",
     "GITHUB_REPO_NAME", "RUBRIK_SLA_DOMAIN_NAME"}

\* s is blanks, then a run of the characters of fill, then blanks
BlankAround(s, fill) ==
    \E a \in 0..Len(s) : \E b \in a..Len(s) :
        /\ \A i \in 1..a : CharAt(s, i) \in Whitespace
        /\ \A i \in (a + 1)..b : CharAt(s, i) \in fill
        /\ \A i \in (b + 1)..Len(s) : CharAt(s, i) \in Whitespace

\* the required inputs that are unset, empty or blank (the URI: nothing
\* left once blanks and trailing slashes are taken off)
InputsLacking ==
    { n \in RequiredNames :
        \/ env[n].ty = "none"
        \/ BlankAround(env[n].s, IF n = "RUBRIK_RSC_URI" THEN {"/"} ELSE {}) }

---------------------------------------------------------------------------
(* C12: when one of the five required inputs is unset or empty, main       *)
(* returns 1 having reported exactly the names of the inputs that are      *)
(* missing, each once, and no request has been sent and nothing waited     *)
(* for.                                                                    *)

C12_MissingInputs ==
    (pc # "main" /\ InputsLacking # {}) =>
        /\ pc = "done"
        /\ rc = 1
        /\ raised = ""
        /\ log = <<>>
        /\ resp = NoResponse
        /\ stderr = <<"Missing required environment variables">>
        /\ { missing[i] : i \in 1..Len(missing) } = InputsLacking
        /\ Len(missing) = Cardinality(InputsLacking)

\* two inputs lacking, one of them set but blank, both reported
C12_Witness ==
    /\ pc = "done"
    /\ rc = 1
    /\ env.RUBRIK_CLIENT_ID = PyStr(" ")
    /\ env.RUBRIK_SLA_DOMAIN_NAME = PyNone
    /\ missing = <<"RUBRIK_CLIENT_ID", "RUBRIK_SLA_DOMAIN_NAME">>
    /\ log = <<>>


---------------------------------------------------------------------------
(* C13: under fair scheduling the poller makes its next status query as    *)
(* long as it has not ended, and a query answered by a well-formed,        *)
(* error-free response with a terminal status ends it with that status as  *)
(* its result, so a backend that answers so from some point on makes the   *)
(* poller terminate; and a status query ends the poller exactly when its   *)
(* response carries a terminal status or is a fatal error.                 *)

C13_TerminatesOnTerminalOrFatal ==
    /\ \A n \in 0..(MaxPolls - 1) :
         (pc \in {"wait_for_activity_series", "poll_sleep"} /\ Count("status") = n)
            ~> (Count("status") > n)
    /\ [][ StatusQueryStep =>
             /\ TerminalResponse(resp') => PollerReturned(resp'.leaf)
             /\ pc' = "done" <=> (TerminalResponse(resp') \/ FatalResponse(resp'))
         ]_vars


---------------------------------------------------------------------------
(* Vocabulary of post_graphql's failures. *)

\* the failure class of r among the four of post_graphql, or "none"
FailureClass(r) ==
    CASE r.net = "neterr" -> "network"
      [] r.net = "http" -> "status"
      [] r.net = "badjson" -> "json"
      [] r.net = "json" /\ r.obj /\ ErrorsTruthy(r.errors) -> "errors"
      [] OTHER -> "none"

\* the responses the calls made through post_graphql can receive
HelperResponses == RepoResponses \cup SlaResponses \cup TriggerResponses

\* the line post_graphql writes to stderr for a failure class
Diagnostic(class) ==
    CASE class \in {"network", "status"} -> "GraphQL request failed"
      [] class = "json" -> "GraphQL response was not valid JSON"
      [] OTHER -> "GraphQL errors"

\* the latest response answers a call made through post_graphql and is one
\* of its four failures
HelperFailed ==
    LastRequest \in {"repo", "sla", "trigger"} /\ FailureClass(resp) # "none"

---------------------------------------------------------------------------
(* C14 as the specification has it: post_graphql hands each of its four    *)
(* failure classes to its caller as something other than a success         *)
(* result, and the caller can tell each class from the other three by      *)
(* what it is handed.                                                      *)

C14_FailureClassesDistinct ==
    HelperFailed =>
        /\ post_graphql(resp).k # "data"
        /\ \A r \in HelperResponses :
             FailureClass(r) \notin {"none", FailureClass(resp)}
                => post_graphql(r).k # post_graphql(resp).k

(* C14 as it holds: post_graphql reports each of its four failure classes  *)
(* to its caller as the same absent result, None, having written a         *)
(* diagnostic to stderr; none is turned into a success result, the calling *)
(* function returns None in its turn and main returns 1; the result is     *)
(* the same for all four classes.                                          *)

C14_FailuresReportedAsNone ==
    HelperFailed =>
        /\ post_graphql(resp).k = "None"
        /\ \E i \in 1..Len(stderr) : stderr[i] = Diagnostic(FailureClass(resp))
        /\ pc = "done" /\ rc = 1 /\ raised = ""
        /\ LastRequest = "repo" => repo_id = PyNone
        /\ LastRequest = "sla" => sla_domain_id = PyNone
        /\ LastRequest = "trigger" => taskchain_id = PyNone
        /\ \A r \in HelperResponses :
             FailureClass(r) # "none" => post_graphql(r).k = post_graphql(resp).k

\* the trigger's response was not valid JSON: reported, and main returns 1
C14_Witness ==
    /\ LastRequest = "trigger"
    /\ resp.net = "badjson"
    /\ pc = "done"
    /\ rc = 1
    /\ Last(stderr) = "Backup failed due to earlier error."


---------------------------------------------------------------------------
(* Vocabulary of the lookups' outcomes. *)

\* the latest response answers a lookup and post_graphql handed it on
LookupAnswered ==
    LastRequest \in {"repo", "sla"} /\ post_graphql(resp).k = "data"

\* r lacks part of data -> <field> -> nodes -> [0] -> id: a key or an
\* object on the way is missing, nodes is not a list, or the first node is
\* not an object or has no id
UnexpectedShape(r) ==
    \/ r.shape \in BrokenShapes
    \/ r.shape = "leaf" /\ r.nodes.k = "object"
    \/ /\ r.shape = "leaf"
       /\ r.nodes.k = "list"
       /\ r.nodes.ns # <<>>
       /\ ~r.nodes.ns[1].dict \/ r.nodes.ns[1].id = PyNone

\* r lists zero matches
ZeroMatches(r) == r.shape = "leaf" /\ r.nodes = NodeList(<<>>)

\* what a run shows after a lookup that found zero matches: main's one
\* line on stderr and return code 1, no exception
AbsentOutcome ==
    /\ pc = "done"
    /\ rc = 1
    /\ raised = ""
    /\ stderr = << IF LastRequest = "repo"
                   THEN "Repo not found in Rubrik (repo_id is empty)."
                   ELSE "SLA Domain not found in Rubrik (sla_domain_id is empty)." >>

---------------------------------------------------------------------------
(* C15: in both resolvers a response of unexpected shape is a hard         *)
(* failure whose outcome differs from the outcome of zero matches, also    *)
(* when the first node of a non-empty nodes list has no id: the run ends   *)
(* with code 1 and shows something (a line on stderr, an exception) that   *)
(* a run with zero matches does not show.                                  *)

C15_ShapeFailureIsNotAbsent ==
    (LookupAnswered /\ UnexpectedShape(resp)) =>
        /\ pc = "done"
        /\ rc = 1
        /\ ~AbsentOutcome


---------------------------------------------------------------------------
(* Vocabulary of the repository reference. *)

\* owners a repository name can be prefixed with
Owners == {"owner", "o", "my-org"}

\* text is what follows the last separator of given (all of it when there
\* is no separator)
IsBareNameOf(text, given) ==
    /\ \A i \in 1..Len(text) : CharAt(text, i) # "/"
    /\ \/ given = text
       \/ /\ Len(given) > Len(text)
          /\ SubSeq(given, Len(given) - Len(text) + 1, Len(given)) = text
          /\ CharAt(given, Len(given) - Len(text)) = "/"

---------------------------------------------------------------------------
(* C16: the repository lookup is sent with the bare repository name as     *)
(* its filter text, so that for every owner the reference 'owner/name'     *)
(* and the reference 'name' send the same lookup; and the ID the lookup    *)
(* returns is determined by the backend's response alone, so both forms    *)
(* return the same ID against the same backend.                            *)

---------------------------------------------------------------------------
(* Vocabulary of the wait flag. *)

\* s is the word 'false' in some mix of upper and lower case
IsFalseWord(s) ==
    /\ Len(s) = 5
    /\ CharAt(s, 1) \in {"f", "F"}
    /\ CharAt(s, 2) \in {"a", "A"}
    /\ CharAt(s, 3) \in {"l", "L"}
    /\ CharAt(s, 4) \in {"s", "S"}
    /\ CharAt(s, 5) \in {"e", "E"}

\* s is the word 'false' with blanks before and after it, if any
IsFalseWordInBlanks(s) ==
    \E a \in 0..Len(s) :
        /\ a + 5 <= Len(s)
        /\ \A i \in 1..a : CharAt(s, i) \in Whitespace
        /\ IsFalseWord(SubSeq(s, a + 1, a + 5))
        /\ \A i \in (a + 6)..Len(s) : CharAt(s, i) \in Whitespace

---------------------------------------------------------------------------
(* C17 as the specification has it: waiting is enabled when the flag is    *)
(* unset, and disabled only when its value is the string 'false' itself,   *)
(* in any case of letters; every other value leaves waiting enabled, the   *)
(* empty string, '0', 'no' and 'false' with blanks around it included.     *)

---------------------------------------------------------------------------
(* C18: the poller has no limit of attempts: for every n, when the n-th    *)
(* status query is answered by a non-terminal status or by a transient     *)
(* fault, the poller does not return; it waits the poll interval and       *)
(* then sends status query n + 1.                                          *)

C18_NoAttemptLimit ==
    [][ /\ \A n \in 1..MaxPolls :
             ( /\ StatusQueryStep
               /\ Len(SelectSeq(log', LAMBDA ev : ev.op = "status")) = n
               /\ Continuing(resp') )
                => PollerGoesOn
        /\ (pc = "poll_sleep" /\ Continuing(resp)) => PollWaitStep
        /\ (pc = "wait_for_activity_series" /\ StatusQueries # {} /\ Continuing(resp))
              => /\ StatusQueryStep
                 /\ Len(SelectSeq(log', LAMBDA ev : ev.op = "status"))
                      = Cardinality(StatusQueries) + 1
      ]_vars

\* as many attempts as the model allows, a non-terminal status and then a
\* transient fault among them, and the poller still going
C18_Witness ==
    /\ pc = "poll_sleep"
    /\ Cardinality(StatusQueries) = MaxPolls
    /\ status = PyStr("Running")
    /\ TransientResponse(resp)


---------------------------------------------------------------------------
(* Vocabulary of the classification. *)

\* the latest status query was answered by a body with a non-empty errors
\* array
ErrorsArrayReceived ==
    /\ StatusQueries # {}
    /\ resp.net = "json"
    /\ resp.obj
    /\ resp.errors.k = "list"
    /\ resp.errors.es # <<>>

\* the poller took the latest response for a transient fault: it is still
\* in its loop
TakenForTransient == pc \in {"poll_sleep", "wait_for_activity_series"}

\* the poller took the latest response for a fatal error: None went to main
TakenForFatal == pc = "done" /\ raised = "" /\ final_status = PyNone /\ rc = 1

---------------------------------------------------------------------------
(* C19 as the specification has it: an errors array is classified          *)
(* transient exactly when at least one of its entries bears the whole      *)
(* signature (path ['activitySeries'], code 500, the message); arrays      *)
(* whose entries each fail part of it are fatal.                           *)

C19_TransientIffSomeEntry ==
    ErrorsArrayReceived =>
        /\ is_transient_activityseries_500(resp.errors)
             <=> SomeEntryHasSignature(resp.errors)
        /\ SomeEntryHasSignature(resp.errors) => TakenForTransient
        /\ ~SomeEntryHasSignature(resp.errors) => TakenForFatal

(* C19 as it holds: an errors array is classified transient exactly when   *)
(* one of its entries bears the whole signature (path ['activitySeries'],  *)
(* code 500, the message in any case of letters) and every entry before    *)
(* it can be examined; an entry matching one or two parts only does not    *)
(* count, and an array without such an entry, or with an entry that        *)
(* cannot be examined before it, is fatal.                                 *)

C19_TransientIffSignatureFound ==
    ErrorsArrayReceived =>
        /\ is_transient_activityseries_500(resp.errors)
             <=> SignatureFound(resp.errors)
        /\ SignatureFound(resp.errors) => TakenForTransient
        /\ ~SignatureFound(resp.errors) => TakenForFatal

\* an entry of another kind and then one bearing the signature: transient
C19_Witness ==
    /\ pc = "poll_sleep"
    /\ StatusQueries # {}
    /\ resp.errors = ErrorList(<<NotFoundEntry, TransientEntry>>)


---------------------------------------------------------------------------
(* C20: a transient fault changes nothing in the poller but the passage    *)
(* of one poll interval: the step that receives it leaves the last         *)
(* recorded status, the series ID, the token and everything else of the    *)
(* run as they were and writes nothing to stderr, the wait that follows    *)
(* adds one sleep of the poll interval and no more; and every status       *)
(* query of a run carries the series ID the trigger returned in that run.  *)

C20_TransientFaultFrame ==
    [][ /\ (StatusQueryStep /\ TransientFault(resp'))
              => /\ pc' = "poll_sleep"
                 /\ UNCHANGED <<env, cfg, missing, token, repo_id, sla_domain_id,
                                taskchain_id, status, final_status, stderr,
                                raised, rc>>
        /\ (pc = "poll_sleep" /\ TransientFault(resp))
              => /\ pc' = "wait_for_activity_series"
                 /\ log' = Append(log, Event("sleep", PyNone, PyNone, 10))
                 /\ UNCHANGED <<env, cfg, missing, token, repo_id, sla_domain_id,
                                taskchain_id, status, final_status, resp, stderr,
                                raised, rc>>
        /\ (pc = "trigger_on_demand_snapshot" /\ pc' = "grace_sleep")
              => taskchain_id' = resp'.leaf /\ resp'.leaf.ty = "str"
        /\ pc \in {"grace_sleep", "wait_for_activity_series", "poll_sleep"}
              => taskchain_id' = taskchain_id
        /\ \A i \in 1..Len(log') :
             log'[i].op = "status" => log'[i].a = taskchain_id'
      ]_vars

\* a status of 'Running' recorded, then a transient fault: the status and
\* the series ID of the queries are what they were
C20_Witness ==
    /\ pc = "poll_sleep"
    /\ status = PyStr("Running")
    /\ TransientFault(resp)
    /\ taskchain_id = PyStr("T2")
    /\ Cardinality(StatusQueries) >= 2
    /\ \A i \in StatusQueries : log[i].a = PyStr("T2")


---------------------------------------------------------------------------
(* Vocabulary of the exceptions. *)

\* r, as the answer to the request op, makes the step raise: the token
\* request fails, is refused or is answered by something else than a JSON
\* object; any other request is answered by JSON that is not an object; a
\* lookup lists nodes that are not a list, or a first node that is not an
\* object
RaisingResponse(op, r) ==
    \/ op = "token" /\ (r.net # "json" \/ ~r.obj)
    \/ op \in {"repo", "sla", "trigger", "status"} /\ r.net = "json" /\ ~r.obj
    \/ /\ op \in {"repo", "sla"}
       /\ post_graphql(r).k = "data"
       /\ r.shape = "leaf"
       /\ \/ r.nodes.k = "object"
          \/ r.nodes.k = "list" /\ r.nodes.ns # <<>> /\ ~r.nodes.ns[1].dict

---------------------------------------------------------------------------
(* C21: once the configuration is validated no failure leaves main as an   *)
(* exception: a step whose response makes it raise (the token request      *)
(* failing or refused, a body that is JSON but not an object, a node that  *)
(* is not an object) ends the run with return code 1 through main's        *)
(* handler; a run that has ended has returned 0 or 1, and no step is       *)
(* taken after the one that ended it.                                      *)

C21_ExceptionsReturnOne ==
    [][ /\ pc # "done"
        /\ raised = ""
        /\ (log' # log /\ Last(log').op # "sleep"
              /\ RaisingResponse(Last(log').op, resp'))
              => /\ pc' = "done"
                 /\ rc' = 1
                 /\ raised' # ""
                 /\ Last(stderr') = "Critical Error"
                 /\ missing' = <<>>
                 /\ UNCHANGED <<token, repo_id, sla_domain_id, taskchain_id,
                                final_status>>
        /\ raised' # "" => pc' = "done" /\ rc' = 1
        /\ pc' = "done" => rc' \in {0, 1}
      ]_vars

\* the policy lookup answered by a first node that is not an object: the
\* exception is caught, main has returned 1 and the lookup was the last step
C21_Witness ==
    /\ pc = "done"
    /\ rc = 1
    /\ raised = "get_rubrik_sla_domain_id"
    /\ Last(log).op = "sla"
    /\ resp.nodes.k = "list"
    /\ resp.nodes.ns # <<>>
    /\ ~resp.nodes.ns[1].dict
    /\ Last(stderr) = "Critical Error"

=============================================================================
